---- MODULE Spec2Model ----
(***************************************************************************)
(* Model of project_zip: MasterRouter (master_router.py), MemoryManager    *)
(* (utils/memory_manager.py) and the intent interpreter                    *)
(* (utils/interpreter.py).  One action, Process, is one call of            *)
(* MasterRouter.process(uid, user_input); it runs to completion.           *)
(*                                                                         *)
(* Python dicts are functions with a finite domain (records when the keys  *)
(* are strings), lists are sequences, None/absent is a missing key.        *)
(***************************************************************************)
EXTENDS Integers, Sequences, FiniteSets, TLC

VARIABLES
    mcp_servers,             \* MasterRouter.mcp_servers: names of the loaded agents
    last_incomplete_command, \* MasterRouter.last_incomplete_command: uid -> command
    short_term_memory,       \* MemoryManager.short_term_memory: uid -> deque
    long_term_memory,        \* MemoryManager.long_term_memory: uid -> dict
    stm_max_len,             \* MemoryManager.stm_max_len
    calls,                   \* number of calls (process() or store operations) so far
    turn,                    \* arguments and adapter output of the last process() call
    events,                  \* what the last process() call did, in program order
    pending_origin,          \* history: uid -> the pending command as it was created
    stm_log,                 \* history: uid -> every entry add_to_short_term was given
    returned,                \* the mapping get_all_long_term handed to a caller
    response                 \* what the last process() call returned (or raised)

vars == <<mcp_servers, last_incomplete_command, short_term_memory,
          long_term_memory, stm_max_len, calls, turn, events, pending_origin,
          stm_log, returned, response>>

----------------------------------------------------------------------------
(* Bounds of the model *)

\* process() calls in one behaviour
MaxCalls == 3

\* store operations in one behaviour of the store on its own
MaxOps == 4

\* largest transcript capacity the store is built with
MaxStmLen == 3

Users == {"u1"}

\* the users of the store, and of the router when it serves more than one
StoreUsers == {"u1", "u2"}

\* The text the user types in the k-th call and the value the language model
\* extracts from it.  Both are opaque to the router; a fresh one per call keeps
\* the turns apart in transcripts and merged parameters.
TextOf(k) == "t" \o ToString(k)
ValOf(k) == "v" \o ToString(k)

\* the code a successful generate_code returns
GenCode == "print(1)"

----------------------------------------------------------------------------
(* Python dict and list helpers *)

EmptyDict == <<>>

\* d[k] = v
Put(d, k, v) == [x \in DOMAIN d \cup {k} |-> IF x = k THEN v ELSE d[x]]

\* del d[k]
Del(d, k) == [x \in DOMAIN d \ {k} |-> d[x]]

\* d.update(e)
DictUpdate(d, e) == [x \in DOMAIN d \cup DOMAIN e |-> IF x \in DOMAIN e THEN e[x] ELSE d[x]]

\* d.get(k, default)
Get(d, k, default) == IF k \in DOMAIN d THEN d[k] ELSE default

\* x in list
InList(x, s) == \E i \in 1..Len(s) : s[i] = x

\* list.remove(x): removes the first occurrence of x (x is in the list)
ListRemove(s, x) ==
    LET i == CHOOSE j \in 1..Len(s) : s[j] = x /\ \A k \in 1..(j-1) : s[k] # x
    IN  SubSeq(s, 1, i-1) \o SubSeq(s, i+1, Len(s))

\* [f for f in s if keep(f)]
RECURSIVE FilterNotIn(_, _)
FilterNotIn(s, keys) ==
    IF s = <<>> THEN <<>>
    ELSE (IF Head(s) \in keys THEN <<>> ELSE <<Head(s)>>) \o FilterNotIn(Tail(s), keys)

\* The characters of the parameter names the model uses (a Python str is the
\* sequence of its characters).
Chars(name) ==
    CASE name = "content"   -> <<"c","o","n","t","e","n","t">>
      [] name = "repo_name" -> <<"r","e","p","o","_","n","a","m","e">>
      [] name = "language"  -> <<"l","a","n","g","u","a","g","e">>
      [] name = "task"      -> <<"t","a","s","k">>
      [] OTHER              -> <<"?">>

----------------------------------------------------------------------------
(* utils/memory_manager.py *)

\* MemoryManager.__init__(self, stm_max_len: int = 20)
DefaultStmMaxLen == 20

\* One transcript entry, {"role": ..., "content": ...}
Entry(role, content) == [role |-> role, content |-> content]

\* Mutant of DequeAppend: a full deque refuses the new entry
DequeAppend_KeepsOldest(dq, x, maxlen) ==
    IF Len(dq) >= maxlen THEN dq ELSE Append(dq, x)

\* deque(maxlen=n).append(x): the oldest entry is dropped when the deque is full
DequeAppend(dq, x, maxlen) ==
    IF maxlen = 0 THEN dq
    ELSE IF Len(dq) >= maxlen THEN Append(Tail(dq), x)
    ELSE Append(dq, x)

\* MemoryManager.add_to_short_term: the new value of short_term_memory
add_to_short_term(stm, maxlen, uid, user_input, assistant_response) ==
    LET dq0 == IF uid \in DOMAIN stm THEN stm[uid] ELSE <<>>
        dq1 == DequeAppend(dq0, Entry("user", user_input), maxlen)
        dq2 == DequeAppend(dq1, Entry("assistant", assistant_response), maxlen)
    IN  Put(stm, uid, dq2)

\* MemoryManager.get_short_term_history
get_short_term_history(stm, uid) == Get(stm, uid, <<>>)

\* Mutant of add_to_long_term: the user's map is replaced by the updates
add_to_long_term_Replaces(ltm, uid, data) == Put(ltm, uid, data)

\* MemoryManager.add_to_long_term: the new value of long_term_memory
add_to_long_term(ltm, uid, data) ==
    LET d0 == IF uid \in DOMAIN ltm THEN ltm[uid] ELSE EmptyDict
    IN  Put(ltm, uid, DictUpdate(d0, data))

\* Mutant of get_all_long_term: the map of some user of the store is returned
get_all_long_term_AnyUser(ltm, uid) ==
    IF DOMAIN ltm = {} THEN EmptyDict ELSE ltm[CHOOSE u \in DOMAIN ltm : TRUE]

\* MemoryManager.get_all_long_term
get_all_long_term(ltm, uid) == Get(ltm, uid, EmptyDict)

----------------------------------------------------------------------------
(* utils/interpreter.py *)

\* The intent returned when the language model's answer cannot be used
DefaultIntent(message) ==
    [agent |-> "unknown", action |-> "unknown", params |-> EmptyDict,
     needs |-> <<>>, raw_input |-> message]

\* A JSON value of the language model's answer, with its Python type
Json(t, v) == [t |-> t, v |-> v]

\* Mutant of Coerce: a field that should be a str is taken as it comes
Coerce_TrustsStrFields(obj, key, type, default) ==
    IF key \in DOMAIN obj /\ (obj[key].t = type \/ type = "str") THEN obj[key].v ELSE default

\* dict.setdefault followed by the isinstance check of one field
Coerce(obj, key, type, default) ==
    IF key \in DOMAIN obj /\ obj[key].t = type THEN obj[key].v ELSE default

\* extract_intent_and_args.  raw is what the language model call produced:
\*   "raise"        the call or the prompt loading raised
\*   "empty"        the answer was empty after stripping
\*   "unparseable"  json.loads raised JSONDecodeError
\*   "nondict"      valid JSON that is not an object
\*   "dict"         a JSON object, raw.obj
extract_intent_and_args(message, raw) ==
    IF raw.kind = "dict"
    THEN [agent     |-> Coerce(raw.obj, "agent", "str", "unknown"),
          action    |-> Coerce(raw.obj, "action", "str", "unknown"),
          params    |-> Coerce(raw.obj, "params", "dict", EmptyDict),
          needs     |-> Coerce(raw.obj, "needs", "list", <<>>),
          raw_input |-> message]
    ELSE DefaultIntent(message)

----------------------------------------------------------------------------
(* Configuration read by MasterRouter.__init__ (config.json) and the agents *)

\* config['agents']: the agents the router tries to load
ConfigAgents == {"chat", "developer", "git"}

\* flags['chat_agent_name']
chat_agent_name == "chat"

\* chat_actions[...]
ChatActions == {"remember", "query_memory", "get_history", "show_capabilities"}

\* The parameters of a handler operation (inspect.signature), or "none" when the
\* handler has no callable attribute of that name.
\*   DeveloperAgentLogic.generate_code(self, language, task)
\*   GitAgentLogic.create_repo(self, repo_name, private=False)
Signature(agent, action) ==
    CASE agent = "developer" /\ action = "generate_code" ->
           [params |-> {"language", "task"}, required |-> {"language", "task"}]
      [] agent = "git" /\ action = "create_repo" ->
           [params |-> {"repo_name", "private"}, required |-> {"repo_name"}]
      [] OTHER -> [params |-> {}, required |-> {"none"}]

IsOperation(agent, action) == Signature(agent, action).required # {"none"}

\* What the operation returns when it is called with its required arguments
HandlerResults(agent, action) ==
    CASE agent = "developer" /\ action = "generate_code" ->
           { [result |-> GenCode, code |-> GenCode],
             [result |-> "[DeveloperAgent Error] LLM failed"] }
      [] agent = "git" /\ action = "create_repo" ->
           { [result |-> "Repo created", link |-> "url"] }
      [] OTHER -> {}

\* What the language model answers to the memory_storage_inference prompt:
\* the call raises, or the answer is no JSON, or "{}", or a JSON object
InferenceOutcomes ==
    { [kind |-> "raise"], [kind |-> "invalid"], [kind |-> "empty"],
      [kind |-> "json", t |-> "dict", v |-> [last_repo |-> "demo"]] }

\* What the commentary agent and the follow-up generator answer
RespServiceOutcomes ==
    { [beautify |-> "B", followup |-> "F"], [beautify |-> "", followup |-> "NONE"] }

\* A needs entry that is not a Python str (the interpreter checks only that
\* needs is a list)
NonStrings == {"<number>"}

----------------------------------------------------------------------------
(* master_router.py: pure parts *)

\* Mutant of ReplaceUnderscore: the names are shown as they are
ReplaceUnderscore_Identity(chars) == chars

\* m.replace('_', ' ')
ReplaceUnderscore(chars) ==
    [i \in 1..Len(chars) |-> IF chars[i] = "_" THEN " " ELSE chars[i]]

\* ', '.join(list)
RECURSIVE Join(_)
Join(list) ==
    IF list = <<>> THEN <<>>
    ELSE IF Len(list) = 1 THEN list[1]
    ELSE list[1] \o <<",", " ">> \o Join(Tail(list))

\* MasterRouter._reprompt_for_missing_params: the returned prompt, or the
\* AttributeError of m.replace on an entry that is no str
reprompt_for_missing_params(command_context) ==
    LET needs == command_context.needs
    IN  IF \E i \in 1..Len(needs) : needs[i] \in NonStrings
        THEN [kind |-> "exception", error |-> "AttributeError"]
        ELSE [kind |-> "missing_params",
              needs |-> Join([i \in 1..Len(needs) |-> ReplaceUnderscore(Chars(needs[i]))])]

\* process, lines 79-84: fill 'content' from the long-term 'code'
AutoFill(current_parsed, ltm) ==
    IF InList("content", current_parsed.needs) /\ "code" \in DOMAIN ltm
    THEN [current_parsed EXCEPT
            !.params = Put(current_parsed.params, "content", ltm["code"]),
            !.needs  = ListRemove(current_parsed.needs, "content")]
    ELSE current_parsed

\* Mutant of MergeParams: a value already held is kept, the new one dropped
MergeParams_KeepsOld(previous_params, current_params) ==
    DictUpdate(current_params, previous_params)

\* _handle_incomplete_command, line 108: previous_ctx["params"].update(...)
MergeParams(previous_params, current_params) == DictUpdate(previous_params, current_params)

\* Mutant of RemainingNeeds: the needs are looked up among the keys of the
\* command instead of the keys of its params
RemainingNeeds_WrongDict(original_needs, params) ==
    FilterNotIn(original_needs, {"agent", "action", "params", "needs", "raw_input"})

\* _handle_incomplete_command, line 112
RemainingNeeds(original_needs, params) == FilterNotIn(original_needs, DOMAIN params)

\* Mutant of MergeTurn: the follow-up intent takes the place of the pending
\* command and receives its params and needs
MergeTurn_AdoptsFollowUp(previous_ctx, current_parsed) ==
    LET original_needs == previous_ctx.needs
        params == MergeParams(previous_ctx.params, current_parsed.params)
    IN  [ctx             |-> [current_parsed EXCEPT !.params = params,
                                                    !.needs = original_needs],
         remaining_needs |-> RemainingNeeds(original_needs, params)]

\* Mutant of MergeTurn: the needs of the follow-up intent are asked for too
MergeTurn_ExtendsNeeds(previous_ctx, current_parsed) ==
    LET original_needs == previous_ctx.needs \o current_parsed.needs
        params == MergeParams(previous_ctx.params, current_parsed.params)
    IN  [ctx             |-> [previous_ctx EXCEPT !.params = params],
         remaining_needs |-> RemainingNeeds(original_needs, params)]

\* Mutant of MergeTurn: the merged command carries the text of the follow-up
\* turn
MergeTurn_TakesFollowUpText(previous_ctx, current_parsed) ==
    LET original_needs == previous_ctx.needs
        params == MergeParams(previous_ctx.params, current_parsed.params)
    IN  [ctx             |-> [previous_ctx EXCEPT !.params = params,
                                                  !.raw_input = current_parsed.raw_input],
         remaining_needs |-> RemainingNeeds(original_needs, params)]

\* _handle_incomplete_command, lines 104-112: the pending command with the
\* new parameters merged in, and what is still missing of its needs
MergeTurn(previous_ctx, current_parsed) ==
    LET original_needs == previous_ctx.needs
        params == MergeParams(previous_ctx.params, current_parsed.params)
    IN  [ctx             |-> [previous_ctx EXCEPT !.params = params],
         remaining_needs |-> RemainingNeeds(original_needs, params)]

\* Mutant of IsIncomplete: a present needs list counts as missing parameters
IsIncomplete_AnyList(current_parsed) == "needs" \in DOMAIN current_parsed

\* process, lines 90-93: does the command still lack parameters?
IsIncomplete(current_parsed) == current_parsed.needs # <<>>

\* Mutant of CallError: the call never raises
CallError_Never(agent, action, kwargs) == ""

\* _route, line 216: the exception method_to_call(**filtered_params) raises, ""
\* when it returns.  A required parameter without an argument is a TypeError;
\* generate_code calls language.lower() outside its try block, an
\* AttributeError when language is no str.
CallError(agent, action, kwargs) ==
    IF ~(Signature(agent, action).required \subseteq DOMAIN kwargs) THEN "TypeError"
    ELSE IF /\ agent = "developer" /\ action = "generate_code"
            /\ kwargs["language"] \in NonStrings THEN "AttributeError"
    ELSE ""

\* _route, line 215
FilterParams(params, sig) == [k \in DOMAIN params \cap sig.params |-> params[k]]

\* MemoryManager.remember_fact: the new value of long_term_memory
remember_fact(ltm, uid, fact) ==
    LET d0    == IF uid \in DOMAIN ltm THEN ltm[uid] ELSE EmptyDict
        memos == IF "user_memos" \in DOMAIN d0 THEN d0["user_memos"] ELSE <<>>
    IN  Put(ltm, uid, Put(d0, "user_memos", Append(memos, fact)))

\* Mutant of FixedRule: the rule looks for the code field of the result
FixedRule_NeedsCode(agent, action, result_obj) ==
    agent = "developer" /\ action = "generate_code" /\ "code" \in DOMAIN result_obj

\* _infer_and_store_memory, lines 282-284: the fixed rule
FixedRule(agent, action, result_obj) ==
    agent = "developer" /\ action = "generate_code" /\ "result" \in DOMAIN result_obj

\* _infer_and_store_memory, lines 294-301: the path the answer io takes.  A
\* raising call and an answer json.loads rejects both end in the except branch.
InferencePath(io) ==
    CASE io.kind \in {"raise", "invalid"} -> "exception"
      [] OTHER -> io.kind

\* Mutant of InferredMemory: a failed inference leaves a note in memory
InferredMemory_NotesFailure(agent, action, result_obj, io) ==
    IF FixedRule(agent, action, result_obj) THEN [code |-> result_obj["result"]]
    ELSE IF io.kind = "json" /\ io.t = "dict" THEN io.v
    ELSE [last_inference |-> io.kind]

\* _infer_and_store_memory: the dict merged into long-term memory (empty: none).
\* io is the language model's answer, consulted only when no fixed rule matches.
InferredMemory(agent, action, result_obj, io) ==
    IF FixedRule(agent, action, result_obj) THEN [code |-> result_obj["result"]]
    ELSE IF io.kind = "json" /\ io.t = "dict" THEN io.v
    ELSE EmptyDict

\* _route, lines 237-246: the text returned after a handler ran
FinalResponse(raw_result_text, rs) ==
    [kind      |-> "final",
     body      |-> IF rs.beautify = "" THEN raw_result_text ELSE rs.beautify,
     followup  |-> IF rs.followup # "" /\ rs.followup # "NONE" THEN rs.followup ELSE ""]

Event(name) == [ev |-> name]

\* a call of memory_manager.add_to_short_term(uid, user_input, assistant_response)
StmAppend(user_input, assistant_response) ==
    [ev |-> "stm_append", user_input |-> user_input,
     assistant_response |-> assistant_response]

\* Mutant of DispatchEffects: the turn is written to the transcript before the
\* operation is called
DispatchEffects_RecordsFirst(invoke, infer, inferred_memory, append) ==
    <<append, invoke, infer>>
      \o (IF DOMAIN inferred_memory # {} THEN <<Event("ltm_merge")>> ELSE <<>>)

\* _route, lines 216-235: what a dispatch does once the operation is resolved,
\* in program order: the call, _infer_and_store_memory (which merges a
\* non-empty dict into long-term memory), add_to_short_term
DispatchEffects(invoke, infer, inferred_memory, append) ==
    <<invoke, infer>>
      \o (IF DOMAIN inferred_memory # {} THEN <<Event("ltm_merge")>> ELSE <<>>)
      \o <<append>>

\* the entries the add_to_short_term calls of a turn were given, in order
RECURSIVE AppendedEntries(_)
AppendedEntries(evs) ==
    IF evs = <<>> THEN <<>>
    ELSE (IF Head(evs).ev = "stm_append"
          THEN <<Entry("user", Head(evs).user_input),
                 Entry("assistant", Head(evs).assistant_response)>>
          ELSE <<>>) \o AppendedEntries(Tail(evs))

\* the history of a user's transcript, extended by entries
LogAppend(log, uid, entries) ==
    IF entries = <<>> THEN log
    ELSE Put(log, uid, Get(log, uid, <<>>) \o entries)

----------------------------------------------------------------------------
(* master_router.py: the operations *)

\* Mutant of MemoryUnchanged: the turn is written to the transcript all the same
MemoryUnchanged_RecordsTurn ==
    /\ short_term_memory' =
         add_to_short_term(short_term_memory, stm_max_len, turn'.uid,
                           turn'.user_input, "no result")
    /\ UNCHANGED long_term_memory

\* a return that leaves both memories as they are
MemoryUnchanged == UNCHANGED <<short_term_memory, long_term_memory>>

\* _route, lines 185-199: the chat agent's actions.  The caller sets
\* last_incomplete_command'.
RouteChat(parsed, uid, ev) ==
    LET action    == parsed.action
        params    == parsed.params
        raw_input == parsed.raw_input
    IN
    IF action = "remember" THEN
        LET fact   == Get(params, "fact", raw_input)
            result == [kind |-> "remember_success", fact |-> fact]
        IN  /\ long_term_memory' = remember_fact(long_term_memory, uid, fact)
            /\ short_term_memory' =
                 add_to_short_term(short_term_memory, stm_max_len, uid, raw_input, result)
            /\ events' = ev \o <<Event("remember_fact"), StmAppend(raw_input, result)>>
            /\ response' = result
    ELSE IF action = "query_memory" THEN
        \E found \in BOOLEAN :
            LET user_ltm == get_all_long_term(long_term_memory, uid)
                result   == IF DOMAIN user_ltm # {} /\ found
                            THEN [kind |-> "llm_response", template |-> "memory_value_found"]
                            ELSE [kind |-> "memory_query_fail"]
            IN  /\ short_term_memory' =
                     add_to_short_term(short_term_memory, stm_max_len, uid, raw_input, result)
                /\ long_term_memory' = long_term_memory
                /\ events' = ev \o <<StmAppend(raw_input, result)>>
                /\ response' = result
    ELSE IF action = "get_history" THEN
        LET stm_history == get_short_term_history(short_term_memory, uid)
            result == IF stm_history = <<>> THEN [kind |-> "no_history"]
                      ELSE [kind |-> "history", entries |-> stm_history]
        IN  /\ short_term_memory' =
                 add_to_short_term(short_term_memory, stm_max_len, uid, raw_input, result)
            /\ long_term_memory' = long_term_memory
            /\ events' = ev \o <<StmAppend(raw_input, result)>>
            /\ response' = result
    ELSE IF action = "show_capabilities" THEN
        /\ MemoryUnchanged
        /\ events' = ev
        /\ response' = [kind |-> "llm_response", template |-> "all_capabilities_list"]
    ELSE IF chat_agent_name \notin mcp_servers THEN
        \* chat_agent is None: chat_agent.run raises AttributeError
        /\ MemoryUnchanged
        /\ events' = ev
        /\ response' = [kind |-> "exception", error |-> "AttributeError"]
    ELSE
        \E rs \in RespServiceOutcomes :
            /\ MemoryUnchanged
            /\ events' = ev \o <<Event("chat_run")>>
            /\ response' = [kind |-> "chat",
                            body |-> IF rs.beautify = "" THEN "raw" ELSE rs.beautify]

\* MasterRouter._route.  ev: the events of the turn so far.  The caller sets
\* last_incomplete_command'.
Route(parsed, uid, ev0) ==
    LET agent_name == parsed.agent
        action     == parsed.action
        params     == parsed.params
        raw_input  == parsed.raw_input
        ev         == Append(ev0, [ev |-> "route", cmd |-> parsed])
        sig        == Signature(agent_name, action)
        filtered_params == FilterParams(params, sig)
        invoke     == [ev |-> "invoke", agent |-> agent_name, action |-> action,
                       kwargs |-> filtered_params]
        error      == CallError(agent_name, action, filtered_params)
    IN
    IF agent_name = chat_agent_name THEN RouteChat(parsed, uid, ev)
    ELSE IF agent_name \notin mcp_servers THEN
        /\ MemoryUnchanged
        /\ events' = ev
        /\ response' = [kind |-> "unsupported_agent", agent |-> agent_name]
    ELSE IF ~IsOperation(agent_name, action) THEN
        /\ MemoryUnchanged
        /\ events' = ev
        /\ response' = [kind |-> "unsupported_action", agent |-> agent_name,
                        action |-> action]
    ELSE IF error # "" THEN
        \* method_to_call(**filtered_params) raises
        /\ MemoryUnchanged
        /\ events' = Append(ev, invoke)
        /\ response' = [kind |-> "execution_error", agent |-> agent_name,
                        action |-> action, error |-> error]
    ELSE
        \E result_obj \in HandlerResults(agent_name, action) :
        \E io \in IF FixedRule(agent_name, action, result_obj)
                  THEN {[kind |-> "unused"]} ELSE InferenceOutcomes :
        \E rs \in RespServiceOutcomes :
            LET raw_result_text == Get(result_obj, "result", "action_complete")
                inferred_memory == InferredMemory(agent_name, action, result_obj, io)
                infer == [ev |-> "infer", params |-> params,
                          llm |-> ~FixedRule(agent_name, action, result_obj),
                          outcome |-> InferencePath(io)]
            IN  /\ long_term_memory' =
                     IF DOMAIN inferred_memory # {}
                     THEN add_to_long_term(long_term_memory, uid, inferred_memory)
                     ELSE long_term_memory
                /\ short_term_memory' =
                     add_to_short_term(short_term_memory, stm_max_len, uid,
                                       raw_input, raw_result_text)
                /\ events' = ev \o DispatchEffects(invoke, infer, inferred_memory,
                                                   StmAppend(raw_input, raw_result_text))
                /\ response' = FinalResponse(raw_result_text, rs)

\* MasterRouter._handle_incomplete_command
HandleIncomplete(uid, current_parsed) ==
    LET merge == MergeTurn(last_incomplete_command[uid], current_parsed)
    IN
    IF merge.remaining_needs = <<>> THEN
        /\ last_incomplete_command' = Del(last_incomplete_command, uid)
        /\ Route(merge.ctx, uid, <<Event("del_pending")>>)
    ELSE
        LET ctx == [merge.ctx EXCEPT !.needs = merge.remaining_needs]
        IN  /\ last_incomplete_command' = Put(last_incomplete_command, uid, ctx)
            /\ MemoryUnchanged
            /\ events' = <<>>
            /\ response' = reprompt_for_missing_params(ctx)

\* MasterRouter.process(uid, user_input); raw is the language model's answer to
\* the interpreter prompt.  extract_intent_and_args catches every exception
\* itself, so the except branch of lines 70-75 is never taken.
Process(uid, user_input, raw) ==
    /\ calls < MaxCalls
    /\ calls' = calls + 1
    /\ UNCHANGED <<mcp_servers, stm_max_len, returned>>
    /\ LET parsed0        == extract_intent_and_args(user_input, raw)
           ltm            == get_all_long_term(long_term_memory, uid)
           current_parsed == AutoFill(parsed0, ltm)
       IN  /\ turn' = [uid |-> uid, user_input |-> user_input, raw |-> raw,
                       parsed |-> parsed0]
           /\ IF uid \in DOMAIN last_incomplete_command THEN
                  HandleIncomplete(uid, current_parsed)
              ELSE IF ~IsIncomplete(current_parsed) THEN
                  /\ UNCHANGED last_incomplete_command
                  /\ Route(current_parsed, uid, <<>>)
              ELSE
                  /\ last_incomplete_command' =
                       Put(last_incomplete_command, uid, current_parsed)
                  /\ MemoryUnchanged
                  /\ events' = <<>>
                  /\ response' = reprompt_for_missing_params(current_parsed)
    /\ pending_origin' =
         IF uid \notin DOMAIN last_incomplete_command' THEN Del(pending_origin, uid)
         ELSE IF uid \notin DOMAIN last_incomplete_command
              THEN Put(pending_origin, uid, last_incomplete_command'[uid])
              ELSE pending_origin
    /\ stm_log' = LogAppend(stm_log, uid, AppendedEntries(events'))

----------------------------------------------------------------------------
(* The inputs of the model: what the language model answers to the interpreter *)

\* Parameters the user is asked for
SlotNames == {"content", "repo_name"}

\* {} or {k: v} for one of the slot names, v the value of this call
SlotDicts(v) == {EmptyDict} \cup { [k \in {a} |-> v] : a \in SlotNames }

ParamDicts(v) ==
    SlotDicts(v) \cup { [language |-> l, task |-> v] : l \in {"python"} \cup NonStrings }

\* needs lists the language model returns: none, one slot name, or two in
\* either order, the same name twice included
NeedsLists ==
    {<<>>} \cup { <<a>> : a \in SlotNames } \cup { <<a, b>> : a, b \in SlotNames }

LlmObject(agent, action, params, needs) ==
    [agent |-> Json("str", agent), action |-> Json("str", action),
     params |-> Json("dict", params), needs |-> Json("list", needs)]

LlmObjects(v) ==
    { LlmObject("git", "create_repo", p, n) : p \in SlotDicts(v), n \in NeedsLists }
    \cup { LlmObject("developer", "generate_code", p, <<>>) : p \in ParamDicts(v) }

RawOutputs(v) ==
    { [kind |-> "raise"], [kind |-> "unparseable"], [kind |-> "nondict"] }
    \cup { [kind |-> "dict", obj |-> o] : o \in LlmObjects(v) }

----------------------------------------------------------------------------
(* The specification *)

NoTurn == [uid |-> "", user_input |-> "", raw |-> [kind |-> "none"],
           parsed |-> DefaultIntent("")]

Init ==
    /\ mcp_servers = ConfigAgents
    /\ last_incomplete_command = EmptyDict
    /\ short_term_memory = EmptyDict
    /\ long_term_memory = EmptyDict
    /\ stm_max_len = DefaultStmMaxLen
    /\ calls = 0
    /\ turn = NoTurn
    /\ events = <<>>
    /\ pending_origin = EmptyDict
    /\ stm_log = EmptyDict
    /\ returned = [kind |-> "none"]
    /\ response = [kind |-> "none"]

Next == \E uid \in Users, raw \in RawOutputs(ValOf(calls + 1)) :
            Process(uid, TextOf(calls + 1), raw)

Spec == Init /\ [][Next]_vars

\* Intents that name an agent the registry lacks ("jira") or an action the
\* resolved handler lacks ("frobnicate"), next to ones the registry serves
RegistryObjects(v) ==
    { LlmObject(agent, action, p, n) :
        agent \in {"git", "jira"}, action \in {"create_repo", "frobnicate"},
        p \in {EmptyDict, [repo_name |-> v]}, n \in {<<>>, <<"repo_name">>} }

NextRegistry ==
    \E uid \in Users, o \in RegistryObjects(ValOf(calls + 1)) :
        Process(uid, TextOf(calls + 1), [kind |-> "dict", obj |-> o])

SpecRegistry == Init /\ [][NextRegistry]_vars

\* _load_agents_from_config: an agent whose module or class fails to load is
\* skipped, so the registry is any subset of the configured agents
InitLoad ==
    /\ mcp_servers \in SUBSET ConfigAgents
    /\ last_incomplete_command = EmptyDict
    /\ short_term_memory = EmptyDict
    /\ long_term_memory = EmptyDict
    /\ stm_max_len = DefaultStmMaxLen
    /\ calls = 0
    /\ turn = NoTurn
    /\ events = <<>>
    /\ pending_origin = EmptyDict
    /\ stm_log = EmptyDict
    /\ returned = [kind |-> "none"]
    /\ response = [kind |-> "none"]

\* process() calls in one behaviour of the chat specification
MaxChatCalls == 2

\* Intents for the chat agent: its four special actions and a general chat
\* action, next to one handler operation
ChatObjects(v) ==
    { LlmObject("chat", a, EmptyDict, <<>>) : a \in ChatActions \cup {"chat"} }
    \cup { LlmObject("chat", "remember", [fact |-> v], <<>>),
           LlmObject("developer", "generate_code", [language |-> "python", task |-> v], <<>>) }

NextChat ==
    \E uid \in Users, o \in ChatObjects(ValOf(calls + 1)) :
        /\ calls < MaxChatCalls
        /\ Process(uid, TextOf(calls + 1), [kind |-> "dict", obj |-> o])

SpecChat == InitLoad /\ [][NextChat]_vars

\* process() calls in one behaviour of the adapter specification
MaxAdapterCalls == 2

IntentKeys == {"agent", "action", "params", "needs"}

\* What the language model puts in a field of its JSON object: a value of the
\* expected type, or a value of another JSON type (a number and null by their
\* text, the empty list, a string by its characters)
FieldValue(key, typed, v) ==
    CASE key = "agent"  -> IF typed THEN Json("str", "git") ELSE Json("number", "7")
      [] key = "action" -> IF typed THEN Json("str", "create_repo") ELSE Json("null", "null")
      [] key = "params" -> IF typed THEN Json("dict", [repo_name |-> v])
                                    ELSE Json("list", <<>>)
      [] key = "needs"  -> IF typed THEN Json("list", <<"repo_name">>)
                                    ELSE Json("str", Chars("repo_name"))

\* JSON objects with any of the four fields missing or of the wrong type: for
\* each field that is present, whether its value has the expected type
AdapterObjects == UNION { [keys -> BOOLEAN] : keys \in SUBSET IntentKeys }

\* the JSON object a choice of fields stands for
ObjectOf(choice, v) == [k \in DOMAIN choice |-> FieldValue(k, choice[k], v)]

\* everything the intent adapter's language model call can produce
AdapterOutputs(v) ==
    { [kind |-> "raise"], [kind |-> "empty"], [kind |-> "unparseable"],
      [kind |-> "nondict"] }
    \cup { [kind |-> "dict", obj |-> ObjectOf(c, v)] : c \in AdapterObjects }

NextAdapter ==
    \E uid \in Users, raw \in AdapterOutputs(ValOf(calls + 1)) :
        /\ calls < MaxAdapterCalls
        /\ Process(uid, TextOf(calls + 1), raw)

SpecAdapter == Init /\ [][NextAdapter]_vars

\* Intents of the calls two users make: code generation (which stores the
\* code), a repository command that asks for two values, and follow-ups that
\* supply one of them
UsersObjects(v) ==
    { LlmObject("developer", "generate_code", [language |-> "python", task |-> v], <<>>),
      LlmObject("git", "create_repo", EmptyDict, <<"repo_name", "content">>),
      LlmObject("git", "create_repo", [repo_name |-> v], <<>>),
      LlmObject("git", "create_repo", [content |-> v], <<>>) }

\* process calls of two users, in any interleaving
NextUsers ==
    \E uid \in StoreUsers, o \in UsersObjects(ValOf(calls + 1)) :
        Process(uid, TextOf(calls + 1), [kind |-> "dict", obj |-> o])

SpecUsers == Init /\ [][NextUsers]_vars

----------------------------------------------------------------------------
(* A router that serves one user alone: process as a function of that user's
   pending command, transcript and long-term memory.  Each operator returns the
   set of outcomes the call can have, one per answer of the external services. *)

\* the part of a uid-keyed map that belongs to one user
Slice(f, uid) == [u \in DOMAIN f \cap {uid} |-> f[u]]

\* the outcome of a dispatch: the two memories, the events and the response
RouteOutcome(stm, ltm, evs, resp) ==
    [stm |-> stm, ltm |-> ltm, events |-> evs, response |-> resp]

\* _route, lines 185-199, for the user alone
SoloRouteChat(parsed, uid, ev, stm, ltm, servers, maxlen) ==
    LET action    == parsed.action
        params    == parsed.params
        raw_input == parsed.raw_input
    IN
    IF action = "remember" THEN
        LET fact   == Get(params, "fact", raw_input)
            result == [kind |-> "remember_success", fact |-> fact]
        IN  { RouteOutcome(add_to_short_term(stm, maxlen, uid, raw_input, result),
                           remember_fact(ltm, uid, fact),
                           ev \o <<Event("remember_fact"), StmAppend(raw_input, result)>>,
                           result) }
    ELSE IF action = "query_memory" THEN
        { LET result == IF DOMAIN get_all_long_term(ltm, uid) # {} /\ found
                        THEN [kind |-> "llm_response", template |-> "memory_value_found"]
                        ELSE [kind |-> "memory_query_fail"]
          IN  RouteOutcome(add_to_short_term(stm, maxlen, uid, raw_input, result), ltm,
                           ev \o <<StmAppend(raw_input, result)>>, result)
          : found \in BOOLEAN }
    ELSE IF action = "get_history" THEN
        LET stm_history == get_short_term_history(stm, uid)
            result == IF stm_history = <<>> THEN [kind |-> "no_history"]
                      ELSE [kind |-> "history", entries |-> stm_history]
        IN  { RouteOutcome(add_to_short_term(stm, maxlen, uid, raw_input, result), ltm,
                           ev \o <<StmAppend(raw_input, result)>>, result) }
    ELSE IF action = "show_capabilities" THEN
        { RouteOutcome(stm, ltm, ev,
                       [kind |-> "llm_response", template |-> "all_capabilities_list"]) }
    ELSE IF chat_agent_name \notin servers THEN
        { RouteOutcome(stm, ltm, ev, [kind |-> "exception", error |-> "AttributeError"]) }
    ELSE
        { RouteOutcome(stm, ltm, ev \o <<Event("chat_run")>>,
                       [kind |-> "chat",
                        body |-> IF rs.beautify = "" THEN "raw" ELSE rs.beautify])
          : rs \in RespServiceOutcomes }

\* _route for the user alone
SoloRoute(parsed, uid, ev0, stm, ltm, servers, maxlen) ==
    LET agent_name == parsed.agent
        action     == parsed.action
        params     == parsed.params
        raw_input  == parsed.raw_input
        ev         == Append(ev0, [ev |-> "route", cmd |-> parsed])
        sig        == Signature(agent_name, action)
        filtered_params == FilterParams(params, sig)
        invoke     == [ev |-> "invoke", agent |-> agent_name, action |-> action,
                       kwargs |-> filtered_params]
        error      == CallError(agent_name, action, filtered_params)
    IN
    IF agent_name = chat_agent_name
    THEN SoloRouteChat(parsed, uid, ev, stm, ltm, servers, maxlen)
    ELSE IF agent_name \notin servers THEN
        { RouteOutcome(stm, ltm, ev, [kind |-> "unsupported_agent", agent |-> agent_name]) }
    ELSE IF ~IsOperation(agent_name, action) THEN
        { RouteOutcome(stm, ltm, ev, [kind |-> "unsupported_action", agent |-> agent_name,
                                      action |-> action]) }
    ELSE IF error # "" THEN
        { RouteOutcome(stm, ltm, Append(ev, invoke),
                       [kind |-> "execution_error", agent |-> agent_name,
                        action |-> action, error |-> error]) }
    ELSE
        UNION { UNION {
            { LET raw_result_text == Get(result_obj, "result", "action_complete")
                  inferred_memory == InferredMemory(agent_name, action, result_obj, io)
                  infer == [ev |-> "infer", params |-> params,
                            llm |-> ~FixedRule(agent_name, action, result_obj),
                            outcome |-> InferencePath(io)]
              IN  RouteOutcome(
                      add_to_short_term(stm, maxlen, uid, raw_input, raw_result_text),
                      IF DOMAIN inferred_memory # {}
                      THEN add_to_long_term(ltm, uid, inferred_memory) ELSE ltm,
                      ev \o DispatchEffects(invoke, infer, inferred_memory,
                                            StmAppend(raw_input, raw_result_text)),
                      FinalResponse(raw_result_text, rs))
              : rs \in RespServiceOutcomes }
            : io \in IF FixedRule(agent_name, action, result_obj)
                     THEN {[kind |-> "unused"]} ELSE InferenceOutcomes }
            : result_obj \in HandlerResults(agent_name, action) }

\* the outcome of a call: the pending map and what the dispatch left
WithPending(lic, outcomes) ==
    { [lic |-> lic, stm |-> o.stm, ltm |-> o.ltm, events |-> o.events,
       response |-> o.response] : o \in outcomes }

\* process(uid, user_input) for the user alone
SoloProcess(lic, stm, ltm, servers, maxlen, uid, user_input, raw) ==
    LET parsed0        == extract_intent_and_args(user_input, raw)
        current_parsed == AutoFill(parsed0, get_all_long_term(ltm, uid))
    IN
    IF uid \in DOMAIN lic THEN
        LET merge == MergeTurn(lic[uid], current_parsed)
        IN  IF merge.remaining_needs = <<>>
            THEN WithPending(Del(lic, uid),
                             SoloRoute(merge.ctx, uid, <<Event("del_pending")>>,
                                       stm, ltm, servers, maxlen))
            ELSE LET ctx == [merge.ctx EXCEPT !.needs = merge.remaining_needs]
                 IN  WithPending(Put(lic, uid, ctx),
                                 { RouteOutcome(stm, ltm, <<>>,
                                                reprompt_for_missing_params(ctx)) })
    ELSE IF ~IsIncomplete(current_parsed) THEN
        WithPending(lic, SoloRoute(current_parsed, uid, <<>>, stm, ltm, servers, maxlen))
    ELSE
        WithPending(Put(lic, uid, current_parsed),
                    { RouteOutcome(stm, ltm, <<>>,
                                   reprompt_for_missing_params(current_parsed)) })

----------------------------------------------------------------------------
(* The store on its own: a MemoryManager(stm_max_len) whose operations are
   called directly *)

\* what the callers pass as assistant_response
StoreResponses == {"ok", "err"}

\* MemoryManager(stm_max_len=n)
InitStore ==
    /\ mcp_servers = {}
    /\ last_incomplete_command = EmptyDict
    /\ short_term_memory = EmptyDict
    /\ long_term_memory = EmptyDict
    /\ stm_max_len \in 0..MaxStmLen
    /\ calls = 0
    /\ turn = NoTurn
    /\ events = <<>>
    /\ pending_origin = EmptyDict
    /\ stm_log = EmptyDict
    /\ returned = [kind |-> "none"]
    /\ response = [kind |-> "none"]

RouterUnchanged ==
    UNCHANGED <<mcp_servers, last_incomplete_command, stm_max_len, turn, events,
                pending_origin, returned, response>>

\* memory_manager.add_to_short_term(uid, user_input, assistant_response)
AppendTurn(uid, user_input, assistant_response) ==
    /\ calls < MaxOps
    /\ calls' = calls + 1
    /\ short_term_memory' =
         add_to_short_term(short_term_memory, stm_max_len, uid, user_input,
                           assistant_response)
    /\ stm_log' = LogAppend(stm_log, uid, <<Entry("user", user_input),
                                            Entry("assistant", assistant_response)>>)
    /\ UNCHANGED long_term_memory
    /\ RouterUnchanged

NextStm ==
    \E uid \in StoreUsers, r \in StoreResponses : AppendTurn(uid, TextOf(calls + 1), r)

SpecStm == InitStore /\ [][NextStm]_vars

\* the updates the callers merge into long-term memory
LtmUpdates ==
    { [a |-> 1], [b |-> 2], [a |-> 3], [user_memos |-> <<"m0">>] }

\* memory_manager.add_to_long_term(uid, data)
MergeLongTerm(uid, data) ==
    /\ calls < MaxOps
    /\ calls' = calls + 1
    /\ long_term_memory' = add_to_long_term(long_term_memory, uid, data)
    /\ events' = <<[ev |-> "add_to_long_term", uid |-> uid, data |-> data]>>
    /\ UNCHANGED <<mcp_servers, last_incomplete_command, short_term_memory,
                   stm_max_len, turn, pending_origin, stm_log, returned, response>>

\* memory_manager.remember_fact(uid, fact)
RememberFact(uid, fact) ==
    /\ calls < MaxOps
    /\ calls' = calls + 1
    /\ long_term_memory' = remember_fact(long_term_memory, uid, fact)
    /\ events' = <<[ev |-> "remember_fact", uid |-> uid, fact |-> fact]>>
    /\ UNCHANGED <<mcp_servers, last_incomplete_command, short_term_memory,
                   stm_max_len, turn, pending_origin, stm_log, returned, response>>

NextLtm ==
    \/ \E uid \in StoreUsers, data \in LtmUpdates : MergeLongTerm(uid, data)
    \/ \E uid \in StoreUsers : RememberFact(uid, TextOf(calls + 1))

SpecLtm == InitStore /\ [][NextLtm]_vars

\* The mapping a caller holds after get_all_long_term.  self.long_term_memory
\* .get(uid, {}) returns the user's own dict object when the user has one
\* ("alias": the mapping is whatever the store holds for uid) and a new empty
\* dict otherwise ("own": the mapping is the caller's).
Mapping(ret, ltm) ==
    IF ret.kind = "alias" THEN ltm[ret.uid] ELSE ret.value

\* memory_manager.get_all_long_term(uid), the result kept by the caller
GetLongTerm(uid) ==
    /\ calls < MaxOps
    /\ calls' = calls + 1
    /\ returned' = IF uid \in DOMAIN long_term_memory
                   THEN [kind |-> "alias", uid |-> uid]
                   ELSE [kind |-> "own", value |-> EmptyDict]
    /\ events' = <<[ev |-> "get_all_long_term", uid |-> uid]>>
    /\ UNCHANGED <<mcp_servers, last_incomplete_command, short_term_memory,
                   long_term_memory, stm_max_len, turn, pending_origin, stm_log,
                   response>>

\* the caller assigns mapping[k] = v on the mapping it was handed
CallerWrites(k, v) ==
    /\ calls < MaxOps
    /\ calls' = calls + 1
    /\ returned.kind # "none"
    /\ IF returned.kind = "alias"
       THEN /\ long_term_memory' =
                 Put(long_term_memory, returned.uid,
                     Put(long_term_memory[returned.uid], k, v))
            /\ UNCHANGED returned
       ELSE /\ returned' = [returned EXCEPT !.value = Put(returned.value, k, v)]
            /\ UNCHANGED long_term_memory
    /\ events' = <<[ev |-> "caller_write", key |-> k]>>
    /\ UNCHANGED <<mcp_servers, last_incomplete_command, short_term_memory,
                   stm_max_len, turn, pending_origin, stm_log, response>>

NextSnap ==
    \/ \E uid \in StoreUsers, data \in LtmUpdates : MergeLongTerm(uid, data)
    \/ \E uid \in StoreUsers : GetLongTerm(uid)
    \/ \E k \in {"a", "x"} : CallerWrites(k, 9)

SpecSnap == InitStore /\ [][NextSnap]_vars

----------------------------------------------------------------------------
(* Vocabulary of the properties.  In an action formula the unprimed variables
   are the state before a process() call and the primed ones the state after
   it; turn' holds the call's arguments and the adapter's output. *)

\* the step is one process() call
Stepped == calls' = calls + 1

\* the user has a pending command (AWAITING_PARAMS); otherwise the user is IDLE
Awaiting(lic, uid) == uid \in DOMAIN lic

\* the user's long-term memory before the call of this step
LtmBefore == IF turn'.uid \in DOMAIN long_term_memory
             THEN long_term_memory[turn'.uid] ELSE EmptyDict

\* the auto-fill applies to the intent of this step
FillApplies == InList("content", turn'.parsed.needs) /\ "code" \in DOMAIN LtmBefore

\* params of the intent of this step once the auto-fill step has run
TurnParams ==
    IF FillApplies
    THEN [k \in DOMAIN turn'.parsed.params \cup {"content"} |->
            IF k = "content" THEN LtmBefore["code"] ELSE turn'.parsed.params[k]]
    ELSE turn'.parsed.params

\* needs of the intent of this step once the auto-fill step has run
TurnNeeds ==
    IF FillApplies
    THEN LET n == turn'.parsed.needs
             i == CHOOSE j \in 1..Len(n) : n[j] = "content" /\ \A k \in 1..(j-1) : n[k] # "content"
         IN  [j \in 1..(Len(n) - 1) |-> IF j < i THEN n[j] ELSE n[j + 1]]
    ELSE turn'.parsed.needs

\* the events of a turn in which some handler operation was invoked
Invoked(evs) == \E i \in 1..Len(evs) : evs[i].ev = "invoke"

\* the command handed to the dispatch engine in a turn, if any
Dispatched(evs) == \E i \in 1..Len(evs) : evs[i].ev = "route"
DispatchedCmd(evs) == evs[CHOOSE i \in 1..Len(evs) : evs[i].ev = "route"].cmd

\* position of the first event of a kind (0: none)
FirstPos(evs, kind) ==
    IF \E i \in 1..Len(evs) : evs[i].ev = kind
    THEN CHOOSE i \in 1..Len(evs) : evs[i].ev = kind /\ \A j \in 1..(i-1) : evs[j].ev # kind
    ELSE 0

\* C.params updated with the params of this step's intent: the later value wins
ExpectedMerge(c_params) ==
    [k \in DOMAIN c_params \cup DOMAIN TurnParams |->
        IF k \in DOMAIN TurnParams THEN TurnParams[k] ELSE c_params[k]]

----------------------------------------------------------------------------
(* C1 *)

\* C1: for a user in AWAITING_PARAMS with pending command C, a turn whose
\* intent P (after auto-fill) makes every name of C.needs a key of C.params
\* updated with P.params removes the pending entry before anything is
\* dispatched, dispatches C in that turn with the merged params (and invokes
\* C's operation with the merged params its signature accepts), and leaves the
\* user IDLE.
C1_CompletedCommandIsDispatched ==
    [][ (/\ Stepped
         /\ Awaiting(last_incomplete_command, turn'.uid)
         /\ \A i \in 1..Len(last_incomplete_command[turn'.uid].needs) :
               last_incomplete_command[turn'.uid].needs[i]
                 \in DOMAIN ExpectedMerge(last_incomplete_command[turn'.uid].params))
        =>
        LET C == last_incomplete_command[turn'.uid]
            merged == ExpectedMerge(C.params)
        IN  /\ ~Awaiting(last_incomplete_command', turn'.uid)
            /\ FirstPos(events', "del_pending") = 1
            /\ FirstPos(events', "route") = 2
            /\ DispatchedCmd(events').agent = C.agent
            /\ DispatchedCmd(events').action = C.action
            /\ DispatchedCmd(events').raw_input = C.raw_input
            /\ DispatchedCmd(events').params = merged
            /\ \A i \in 1..Len(events') : events'[i].ev = "invoke" =>
                 /\ i > 2
                 /\ events'[i].agent = C.agent /\ events'[i].action = C.action
                 /\ \A k \in DOMAIN events'[i].kwargs :
                      k \in DOMAIN merged /\ events'[i].kwargs[k] = merged[k]
      ]_vars

\* C1 witness: a pending command was completed by a later turn and its
\* operation invoked; the dispatched params hold values of two different turns
C1_Witness ==
    /\ Len(events) > 2
    /\ events[1].ev = "del_pending"
    /\ events[2].ev = "route"
    /\ Invoked(events)
    /\ DOMAIN events[2].cmd.params = {"content", "repo_name"}
    /\ events[2].cmd.params["content"] # events[2].cmd.params["repo_name"]
    /\ events[2].cmd.params["repo_name"] = turn.parsed.params["repo_name"]
    /\ ~Awaiting(last_incomplete_command, turn.uid)

----------------------------------------------------------------------------
(* C2 *)

\* a name as the reprompt shows it: every underscore is a space
DisplayName(name) ==
    [j \in 1..Len(Chars(name)) |-> IF Chars(name)[j] = "_" THEN " " ELSE Chars(name)[j]]

\* the pieces of a text between the separators ", "
RECURSIVE SplitCommaSpace(_)
SplitCommaSpace(text) ==
    IF \E i \in 1..(Len(text) - 1) : text[i] = "," /\ text[i+1] = " "
    THEN LET i == CHOOSE j \in 1..(Len(text) - 1) :
                    /\ text[j] = "," /\ text[j+1] = " "
                    /\ \A k \in 1..(j-1) : ~(text[k] = "," /\ text[k+1] = " ")
         IN  <<SubSeq(text, 1, i-1)>> \o SplitCommaSpace(SubSeq(text, i+2, Len(text)))
    ELSE <<text>>

\* C2: for an IDLE user, a turn whose intent P has, after auto-fill, a non-empty
\* needs list (of names) stores P as the pending command, invokes no handler
\* operation, and returns the missing-params reprompt listing exactly the names
\* of P.needs, in order, every underscore replaced by a space.
C2_IncompleteCommandIsStoredAndReprompted ==
    [][ (/\ Stepped
         /\ ~Awaiting(last_incomplete_command, turn'.uid)
         /\ TurnNeeds # <<>>
         /\ \A i \in 1..Len(TurnNeeds) : TurnNeeds[i] \notin NonStrings)
        =>
        /\ Awaiting(last_incomplete_command', turn'.uid)
        /\ last_incomplete_command'[turn'.uid] =
             [agent |-> turn'.parsed.agent, action |-> turn'.parsed.action,
              params |-> TurnParams, needs |-> TurnNeeds,
              raw_input |-> turn'.user_input]
        /\ ~Invoked(events') /\ ~Dispatched(events')
        /\ response'.kind = "missing_params"
        /\ SplitCommaSpace(response'.needs) =
             [i \in 1..Len(TurnNeeds) |-> DisplayName(TurnNeeds[i])]
      ]_vars

\* C2 witness: an IDLE user's turn stored a command that needs two names, one
\* with an underscore, and was answered with the reprompt
C2_Witness ==
    /\ Awaiting(last_incomplete_command, turn.uid)
    /\ last_incomplete_command[turn.uid].raw_input = turn.user_input
    /\ last_incomplete_command[turn.uid].needs = <<"repo_name", "content">>
    /\ response.kind = "missing_params"
    /\ events = <<>>

----------------------------------------------------------------------------
(* C3 *)

\* C3: for an IDLE user, a turn whose intent has an empty needs list is handed
\* to the dispatch engine in that turn (and its operation invoked when the
\* registry has it and the required params are there); the pending map is not
\* touched, so the user has no pending entry after the turn.
C3_CompleteCommandIsDispatchedDirectly ==
    [][ (/\ Stepped
         /\ ~Awaiting(last_incomplete_command, turn'.uid)
         /\ turn'.parsed.needs = <<>>)
        =>
        /\ FirstPos(events', "route") = 1
        /\ DispatchedCmd(events') = turn'.parsed
        /\ FirstPos(events', "del_pending") = 0
        /\ last_incomplete_command' = last_incomplete_command
        /\ ~Awaiting(last_incomplete_command', turn'.uid)
        /\ response'.kind # "missing_params"
        /\ LET sig == Signature(turn'.parsed.agent, turn'.parsed.action)
           IN  (/\ turn'.parsed.agent \in mcp_servers
                /\ IsOperation(turn'.parsed.agent, turn'.parsed.action)
                /\ sig.required \subseteq DOMAIN turn'.parsed.params)
               => Invoked(events')
      ]_vars

\* C3 witness: an IDLE user's complete command was dispatched in its own turn
\* and its operation invoked
C3_Witness ==
    /\ Len(events) > 1
    /\ events[1].ev = "route"
    /\ events[1].cmd.raw_input = turn.user_input
    /\ turn.parsed.needs = <<>>
    /\ Invoked(events)
    /\ response.kind = "final"
    /\ ~Awaiting(last_incomplete_command, turn.uid)

----------------------------------------------------------------------------
(* C4 *)

\* C4: the agent and the action of a pending command are those of the intent
\* that created it for as long as it is pending, whatever the intents of the
\* follow-up turns carry, and the command dispatched at the end of the cycle
\* has that agent and that action.
C4_PendingAgentAndActionAreFixed ==
    [][ Stepped =>
        LET uid    == turn'.uid
            before == last_incomplete_command
            after  == last_incomplete_command'
        IN  /\ (~Awaiting(before, uid) /\ Awaiting(after, uid)) =>
                  /\ pending_origin'[uid].agent = turn'.parsed.agent
                  /\ pending_origin'[uid].action = turn'.parsed.action
            /\ (Awaiting(before, uid) /\ Awaiting(after, uid)) =>
                  pending_origin'[uid] = pending_origin[uid]
            /\ Awaiting(after, uid) =>
                  /\ after[uid].agent = pending_origin'[uid].agent
                  /\ after[uid].action = pending_origin'[uid].action
            /\ (Awaiting(before, uid) /\ ~Awaiting(after, uid)) =>
                  /\ Dispatched(events')
                  /\ DispatchedCmd(events').agent = pending_origin[uid].agent
                  /\ DispatchedCmd(events').action = pending_origin[uid].action
                  /\ \A i \in 1..Len(events') : events'[i].ev = "invoke" =>
                        /\ events'[i].agent = pending_origin[uid].agent
                        /\ events'[i].action = pending_origin[uid].action
      ]_vars

\* C4 witness: a pending git command was completed by a turn whose intent
\* named another agent and another action, and the git operation was invoked
C4_Witness ==
    /\ Len(events) > 2
    /\ events[1].ev = "del_pending"
    /\ events[2].ev = "route"
    /\ events[2].cmd.agent = "git" /\ events[2].cmd.action = "create_repo"
    /\ turn.parsed.agent = "developer" /\ turn.parsed.action = "generate_code"
    /\ events[3].ev = "invoke" /\ events[3].agent = "git"

----------------------------------------------------------------------------
(* C5 *)

\* a can be obtained from b by deleting entries
RECURSIVE IsSubSeq(_, _)
IsSubSeq(a, b) ==
    IF a = <<>> THEN TRUE
    ELSE IF b = <<>> THEN FALSE
    ELSE IF Head(a) = Head(b) THEN IsSubSeq(Tail(a), Tail(b))
    ELSE IsSubSeq(a, Tail(b))

\* C5: over the merge turns of one pending command the needs never get longer,
\* and they are always what is left of the needs the command was created with,
\* in the same relative order; the needs of a follow-up intent add nothing.
C5_NeedsOnlyShrink ==
    [][ Stepped =>
        LET uid    == turn'.uid
            before == last_incomplete_command
            after  == last_incomplete_command'
        IN  /\ Awaiting(after, uid) =>
                  IsSubSeq(after[uid].needs, pending_origin'[uid].needs)
            /\ (Awaiting(before, uid) /\ Awaiting(after, uid)) =>
                  /\ pending_origin'[uid] = pending_origin[uid]
                  /\ Len(after[uid].needs) <= Len(before[uid].needs)
                  /\ IsSubSeq(after[uid].needs, before[uid].needs)
      ]_vars

\* C5 witness: a command created with two needs has one of them left after a
\* follow-up turn whose intent listed the other one again as needed
C5_Witness ==
    /\ Awaiting(last_incomplete_command, turn.uid)
    /\ pending_origin[turn.uid].needs = <<"content", "repo_name">>
    /\ last_incomplete_command[turn.uid].needs = <<"repo_name">>
    /\ last_incomplete_command[turn.uid].raw_input # turn.user_input
    /\ turn.parsed.needs = <<"content">>
    /\ turn.parsed.params = EmptyDict

----------------------------------------------------------------------------
(* C6 *)

\* params of the user's command after this step: of the pending command if
\* there is one, else of the command handed to the dispatch engine
ParamsAfter ==
    IF Awaiting(last_incomplete_command', turn'.uid)
    THEN last_incomplete_command'[turn'.uid].params
    ELSE DispatchedCmd(events').params

\* C6: a merge round keeps every key the pending command had and every key
\* the round supplies (the params of the round's intent as the merge receives
\* them), a key supplied in the round has the round's value and any other key
\* keeps its value; so after any number of rounds each key ever present has
\* the value of the latest round that supplied it.
C6_ParamsAccumulate ==
    [][ (Stepped /\ Awaiting(last_incomplete_command, turn'.uid)) =>
        LET held == last_incomplete_command[turn'.uid].params
        IN  /\ DOMAIN held \subseteq DOMAIN ParamsAfter
            /\ DOMAIN turn'.parsed.params \subseteq DOMAIN ParamsAfter
            /\ DOMAIN TurnParams \subseteq DOMAIN ParamsAfter
            /\ \A k \in DOMAIN TurnParams : ParamsAfter[k] = TurnParams[k]
            /\ \A k \in DOMAIN held \ DOMAIN TurnParams : ParamsAfter[k] = held[k]
      ]_vars

\* C6 witness: a command created by the first call is dispatched by the third
\* with the content supplied in the second call and the repo_name supplied in
\* the third
C6_Witness ==
    /\ Len(events) > 1
    /\ events[1].ev = "del_pending"
    /\ events[2].ev = "route"
    /\ events[2].cmd.raw_input = TextOf(1)
    /\ events[2].cmd.params = [content |-> ValOf(2), repo_name |-> ValOf(3)]
    /\ turn.parsed.params = [repo_name |-> ValOf(3)]

----------------------------------------------------------------------------
(* C7 *)

\* C7: on a turn whose needs contain "content" while the user's long-term
\* memory has "code", the command that is stored or dispatched has
\* params["content"] equal to the stored code and no "content" left in its
\* needs; an IDLE user whose only need is content gets the command dispatched
\* in that turn, with no reprompt and no pending entry.
C7_AutoFillResolvesContent ==
    [][ (Stepped /\ FillApplies /\ ~Awaiting(last_incomplete_command, turn'.uid)) =>
        /\ "content" \in DOMAIN ParamsAfter
        /\ ParamsAfter["content"] = LtmBefore["code"]
        /\ Awaiting(last_incomplete_command', turn'.uid) =>
              ~InList("content", last_incomplete_command'[turn'.uid].needs)
        /\ (\A i \in 1..Len(turn'.parsed.needs) : turn'.parsed.needs[i] = "content") =>
              /\ Dispatched(events')
              /\ ~Awaiting(last_incomplete_command', turn'.uid)
              /\ response'.kind # "missing_params"
      ]_vars

----------------------------------------------------------------------------
(* C8 *)

\* C8: the automatic fill never replaces a value of "content" that was already
\* supplied: one in the params of the turn's intent stays, and, the intent
\* supplying none, one held by the pending command stays.
C8_AutoFillNeverOverwrites ==
    [][ (Stepped /\ FillApplies) =>
        /\ "content" \in DOMAIN turn'.parsed.params =>
              ParamsAfter["content"] = turn'.parsed.params["content"]
        /\ (/\ "content" \notin DOMAIN turn'.parsed.params
            /\ Awaiting(last_incomplete_command, turn'.uid)
            /\ "content" \in DOMAIN last_incomplete_command[turn'.uid].params) =>
              ParamsAfter["content"] = last_incomplete_command[turn'.uid].params["content"]
      ]_vars

----------------------------------------------------------------------------
(* C9 *)

\* the intent adapter failed in this step: the call raised, or its output
\* cannot be parsed, or is no mapping
AdapterFailed == turn'.raw.kind \in {"raise", "unparseable", "nondict"}

\* C9: when the intent adapter fails on a turn of a user with a pending
\* command, the response is the reprompt for the needs of that command, the
\* command is the same after the turn, and no handler is invoked.
C9_AdapterFailureKeepsPending ==
    [][ (Stepped /\ AdapterFailed /\ Awaiting(last_incomplete_command, turn'.uid)) =>
        /\ Awaiting(last_incomplete_command', turn'.uid)
        /\ last_incomplete_command'[turn'.uid] = last_incomplete_command[turn'.uid]
        /\ response' = reprompt_for_missing_params(last_incomplete_command[turn'.uid])
        /\ ~Invoked(events')
      ]_vars

----------------------------------------------------------------------------
(* C10 *)

\* _llm_response("unclear_command"), process lines 75 and 97
UnclearCommand == [kind |-> "llm_response", template |-> "unclear_command"]

\* C10: when the intent adapter fails on a turn of a user with no pending
\* command, the response is the unclear-command response, the user stays IDLE
\* and the user's memory is unchanged.
C10_AdapterFailureIsUnclearCommand ==
    [][ (Stepped /\ AdapterFailed /\ ~Awaiting(last_incomplete_command, turn'.uid)) =>
        /\ response' = UnclearCommand
        /\ ~Awaiting(last_incomplete_command', turn'.uid)
        /\ UNCHANGED <<short_term_memory, long_term_memory>>
      ]_vars

----------------------------------------------------------------------------
(* C11 *)

\* the dispatch of this step failed: unknown agent, unknown action, or the
\* call of the operation raised
DispatchFailed ==
    response'.kind \in {"unsupported_agent", "unsupported_action", "execution_error"}

\* C11: when the dispatch of a completed pending command fails, the pending
\* command is still stored after the turn: the user stays in AWAITING_PARAMS.
C11_FailedDispatchKeepsPending ==
    [][ (/\ Stepped
         /\ Awaiting(last_incomplete_command, turn'.uid)
         /\ Dispatched(events')
         /\ DispatchFailed)
        => Awaiting(last_incomplete_command', turn'.uid)
      ]_vars

----------------------------------------------------------------------------
(* C12 *)

\* the last n entries of a sequence (all of it when it has fewer)
LastN(seq, n) ==
    IF Len(seq) <= n THEN seq ELSE SubSeq(seq, Len(seq) - n + 1, Len(seq))

\* C12: every user's transcript holds at most stm_max_len entries and is, in
\* insertion order, the most recent min(stm_max_len, appended) of the entries
\* appended for that user.
C12_TranscriptIsMostRecentEntries ==
    /\ DOMAIN short_term_memory = DOMAIN stm_log
    /\ \A uid \in DOMAIN short_term_memory :
          /\ Len(short_term_memory[uid]) <= stm_max_len
          /\ Len(short_term_memory[uid]) =
                IF stm_max_len < Len(stm_log[uid]) THEN stm_max_len ELSE Len(stm_log[uid])
          /\ short_term_memory[uid] = LastN(stm_log[uid], stm_max_len)

\* C12 witness: a transcript of odd capacity 3 after three appended pairs: it
\* starts with the assistant entry of the second pair
C12_Witness ==
    \E uid \in DOMAIN short_term_memory :
        /\ stm_max_len = 3
        /\ Len(stm_log[uid]) = 6
        /\ Len(short_term_memory[uid]) = 3
        /\ short_term_memory[uid][1] = stm_log[uid][4]
        /\ short_term_memory[uid][1].role = "assistant"
        /\ short_term_memory[uid][3] = stm_log[uid][6]

----------------------------------------------------------------------------
(* C13 *)

\* a user's user_memos list (empty when there is none)
Memos(ltm, uid) ==
    IF uid \in DOMAIN ltm /\ "user_memos" \in DOMAIN ltm[uid]
    THEN ltm[uid]["user_memos"] ELSE <<>>

\* C13: user_memos is append-only: whatever operation runs, the facts a user's
\* user_memos list holds are still in it afterwards, in the same order.
C13_MemosAreAppendOnly ==
    [][ \A uid \in StoreUsers :
            IsSubSeq(Memos(long_term_memory, uid), Memos(long_term_memory', uid))
      ]_vars

----------------------------------------------------------------------------
(* C14 *)

\* a user's long-term map (empty for an unseen user)
LtmOf(ltm, uid) == IF uid \in DOMAIN ltm THEN ltm[uid] ELSE <<>>

\* C14: add_to_long_term(uid, updates) gives the keys of updates their new
\* values and leaves every other key of that user, and every other user,
\* as it was; no operation removes a key from a user's long-term map.
C14_MergeSetsExactlyTheUpdates ==
    [][ /\ \A uid \in DOMAIN long_term_memory :
              /\ uid \in DOMAIN long_term_memory'
              /\ DOMAIN long_term_memory[uid] \subseteq DOMAIN long_term_memory'[uid]
        /\ (Stepped /\ events' # <<>> /\ events'[1].ev = "add_to_long_term") =>
              LET uid  == events'[1].uid
                  data == events'[1].data
                  old  == LtmOf(long_term_memory, uid)
                  new  == LtmOf(long_term_memory', uid)
              IN  /\ DOMAIN new = DOMAIN old \cup DOMAIN data
                  /\ \A k \in DOMAIN data : new[k] = data[k]
                  /\ \A k \in DOMAIN old \ DOMAIN data : new[k] = old[k]
                  /\ \A other \in StoreUsers \ {uid} :
                        LtmOf(long_term_memory', other) = LtmOf(long_term_memory, other)
      ]_vars

\* C14 witness: {a: 1}, {b: 2}, then {a: 3} were merged: the map is {a: 3, b: 2}
C14_Witness ==
    /\ events # <<>>
    /\ events[1].ev = "add_to_long_term"
    /\ events[1].data = [a |-> 3]
    /\ calls = 3
    /\ LtmOf(long_term_memory, events[1].uid) = [a |-> 3, b |-> 2]

----------------------------------------------------------------------------
(* C15 *)

\* C15: get_all_long_term returns a snapshot: a write of the caller to the
\* returned mapping leaves the store as it was, a later store update leaves a
\* mapping returned earlier as it was, and for an unseen uid the mapping is
\* empty.
C15_GetLongTermReturnsSnapshot ==
    [][ (Stepped /\ events' # <<>>) =>
        /\ events'[1].ev = "caller_write" =>
              long_term_memory' = long_term_memory
        /\ (events'[1].ev = "add_to_long_term" /\ returned.kind # "none") =>
              Mapping(returned', long_term_memory') = Mapping(returned, long_term_memory)
        /\ (events'[1].ev = "get_all_long_term"
              /\ events'[1].uid \notin DOMAIN long_term_memory) =>
              Mapping(returned', long_term_memory') = EmptyDict
      ]_vars

----------------------------------------------------------------------------
(* C16 *)

\* C16: a dispatch that finds the agent missing from the registry, or the
\* action missing from the handler, returns a message naming the agent (and
\* the action), invokes nothing, and leaves the user's transcript, long-term
\* memory and pending-command state as they were before the turn.
C16_UnknownTargetChangesNothing ==
    [][ (/\ Stepped
         /\ Dispatched(events')
         /\ \/ DispatchedCmd(events').agent \notin mcp_servers
            \/ ~IsOperation(DispatchedCmd(events').agent, DispatchedCmd(events').action))
        =>
        /\ response'.kind \in {"unsupported_agent", "unsupported_action"}
        /\ response'.agent = DispatchedCmd(events').agent
        /\ response'.kind = "unsupported_action" =>
              response'.action = DispatchedCmd(events').action
        /\ ~Invoked(events')
        /\ UNCHANGED <<short_term_memory, long_term_memory>>
        /\ last_incomplete_command' = last_incomplete_command
      ]_vars

----------------------------------------------------------------------------
(* C17 *)

\* C17: the operation is invoked with exactly the params whose keys are in its
\* signature, and the dropped keys do not reach the memory inference step
\* (the params the delegated inference call is given).
C17_DroppedKeysGoNowhere ==
    [][ (Stepped /\ Invoked(events')) =>
        LET cmd == DispatchedCmd(events')
            sig == Signature(cmd.agent, cmd.action)
        IN  \A i \in 1..Len(events') :
              /\ events'[i].ev = "invoke" =>
                    /\ DOMAIN events'[i].kwargs = DOMAIN cmd.params \cap sig.params
                    /\ \A k \in DOMAIN events'[i].kwargs :
                          events'[i].kwargs[k] = cmd.params[k]
              /\ (events'[i].ev = "infer" /\ events'[i].llm) =>
                    DOMAIN events'[i].params \subseteq sig.params
      ]_vars

----------------------------------------------------------------------------
(* C18 *)

\* the invoke events of a turn
Invocations(evs) == { i \in 1..Len(evs) : evs[i].ev = "invoke" }

\* what the call of an operation with these arguments raises ("": nothing):
\* Python raises TypeError for a required parameter without an argument, and
\* generate_code raises AttributeError on a language that is no str
Raised(e) ==
    IF \E k \in Signature(e.agent, e.action).required : k \notin DOMAIN e.kwargs
    THEN "TypeError"
    ELSE IF e.action = "generate_code" /\ e.kwargs["language"] = "<number>"
    THEN "AttributeError"
    ELSE ""

\* C18: when the invoked operation raises, the response is the execution-error
\* message naming the agent, the action and the error; the operation was
\* invoked once in the turn and process returned.
C18_HandlerErrorIsReported ==
    [][ Stepped =>
        \A i \in Invocations(events') :
            Raised(events'[i]) # "" =>
                /\ response' = [kind   |-> "execution_error",
                                agent  |-> events'[i].agent,
                                action |-> events'[i].action,
                                error  |-> Raised(events'[i])]
                /\ Cardinality(Invocations(events')) = 1
                /\ events'[Len(events')].ev = "invoke"
      ]_vars

\* C18 witness: generate_code was called with a language that is no str and
\* the turn returned the execution-error message
C18_Witness ==
    /\ Cardinality(Invocations(events)) = 1
    /\ events[Len(events)].ev = "invoke"
    /\ events[Len(events)].action = "generate_code"
    /\ "language" \in DOMAIN events[Len(events)].kwargs
    /\ events[Len(events)].kwargs["language"] \in NonStrings
    /\ response.kind = "execution_error"
    /\ response.error = "AttributeError"

----------------------------------------------------------------------------
(* C19 *)

\* C19: when the invoked operation raises, the user's transcript ends, after
\* the turn, with a user entry holding the command's raw input and an
\* assistant entry holding the error result.
C19_HandlerErrorIsRecorded ==
    [][ Stepped =>
        \A i \in Invocations(events') :
            Raised(events'[i]) # "" =>
                LET uid == turn'.uid
                    t   == IF uid \in DOMAIN short_term_memory'
                           THEN short_term_memory'[uid] ELSE <<>>
                IN  /\ Len(t) >= 2
                    /\ t[Len(t) - 1] = Entry("user", DispatchedCmd(events').raw_input)
                    /\ t[Len(t)].role = "assistant"
                    /\ t[Len(t)].content = response'
      ]_vars

----------------------------------------------------------------------------
(* C20 *)

\* the delegated inference of a turn failed or answered the empty object
InferenceFailed(e) ==
    e.ev = "infer" /\ e.llm /\ e.outcome \in {"exception", "empty"}

\* C20: when the delegated memory inference raises, answers invalid JSON or
\* answers the empty object, long-term memory is what it was before the turn,
\* the operation has been invoked, the pair (raw input, result text) is
\* appended to the transcript after it, and the response is one the turn
\* returns for that result text whatever the inference did.
C20_InferenceFailureIsSwallowed ==
    [][ Stepped =>
        \A i \in 1..Len(events') :
            InferenceFailed(events'[i]) =>
                LET last == events'[Len(events')]
                    uid  == turn'.uid
                IN  /\ long_term_memory' = long_term_memory
                    /\ i > 1 /\ events'[i-1].ev = "invoke"
                    /\ Raised(events'[i-1]) = ""
                    /\ i < Len(events')
                    /\ last.ev = "stm_append"
                    /\ last.user_input = DispatchedCmd(events').raw_input
                    /\ short_term_memory' =
                          add_to_short_term(short_term_memory, stm_max_len, uid,
                                            last.user_input, last.assistant_response)
                    /\ response' \in { FinalResponse(last.assistant_response, rs) :
                                          rs \in RespServiceOutcomes }
      ]_vars

\* C20 witness: create_repo ran, the inference ended in its except branch, the
\* turn was recorded and answered, and the user has no long-term memory
C20_Witness ==
    /\ Len(events) = 4
    /\ events[2].ev = "invoke" /\ events[2].action = "create_repo"
    /\ events[3].ev = "infer" /\ events[3].outcome = "exception"
    /\ events[4].ev = "stm_append"
    /\ response.kind = "final"
    /\ turn.uid \notin DOMAIN long_term_memory
    /\ Len(short_term_memory[turn.uid]) = 2

----------------------------------------------------------------------------
(* C21 *)

\* the dispatch of this step ran an action and obtained its result: a handler
\* operation returned, or one of the chat agent's actions answered
ObtainedResult ==
    /\ Dispatched(events')
    /\ response'.kind \notin {"unsupported_agent", "unsupported_action",
                              "execution_error", "exception"}

\* the add_to_short_term calls of a turn
Appends(evs) == { i \in 1..Len(evs) : evs[i].ev = "stm_append" }

\* C21: every dispatch that runs an action and obtains a result, a handler
\* operation or a chat-agent action (remember, query memory, get history,
\* show capabilities, general chat), appends exactly one pair (the command's
\* raw_input, the result text) to the user's transcript.
C21_EveryResultIsRecorded ==
    [][ (Stepped /\ ObtainedResult) =>
        /\ Cardinality(Appends(events')) = 1
        /\ \A i \in Appends(events') :
              /\ events'[i].user_input = DispatchedCmd(events').raw_input
              /\ short_term_memory' =
                    add_to_short_term(short_term_memory, stm_max_len, turn'.uid,
                                      events'[i].user_input,
                                      events'[i].assistant_response)
              /\ DispatchedCmd(events').agent = chat_agent_name =>
                    events'[i].assistant_response = response'
      ]_vars

----------------------------------------------------------------------------
(* C22 *)

\* C22: every call of process returns a string and propagates no exception,
\* whatever the intent adapter, the handler, the inference call and the
\* response services do, and whatever registry the startup loading produced.
C22_ProcessAlwaysReturns ==
    [][ Stepped => response'.kind # "exception" ]_vars

----------------------------------------------------------------------------
(* C23 *)

\* what a process call of this step left for user uid, with the call's events
\* and response
LeftFor(uid) ==
    [lic      |-> Slice(last_incomplete_command', uid),
     stm      |-> Slice(short_term_memory', uid),
     ltm      |-> Slice(long_term_memory', uid),
     events   |-> events',
     response |-> response']

\* C23: in any interleaving of the process calls of different users, a call
\* for user A leaves every other user's pending command, transcript and
\* long-term memory as they were, and what it returns and leaves for A is what
\* the same call does on a router holding A's state alone; so each user's
\* responses and state are those of that user's calls run alone in the same
\* order.
C23_UsersAreIsolated ==
    [][ Stepped =>
        LET A == turn'.uid
        IN  /\ \A B \in StoreUsers \ {A} :
                  /\ Slice(last_incomplete_command', B) = Slice(last_incomplete_command, B)
                  /\ Slice(short_term_memory', B) = Slice(short_term_memory, B)
                  /\ Slice(long_term_memory', B) = Slice(long_term_memory, B)
            /\ LeftFor(A) \in
                  SoloProcess(Slice(last_incomplete_command, A),
                              Slice(short_term_memory, A),
                              Slice(long_term_memory, A),
                              mcp_servers, stm_max_len, A, turn'.user_input, turn'.raw)
      ]_vars

\* C23 witness: u1's command was stored, u2 then generated code, and u1's
\* follow-up asked for content: nothing was filled in from u2's code, u1 is
\* still asked for content and u2's memory holds the code
C23_Witness ==
    /\ calls = 3
    /\ turn.uid = "u1"
    /\ "u2" \in DOMAIN long_term_memory
    /\ "code" \in DOMAIN long_term_memory["u2"]
    /\ "u2" \in DOMAIN short_term_memory
    /\ "u1" \in DOMAIN last_incomplete_command
    /\ last_incomplete_command["u1"].raw_input = TextOf(1)
    /\ InList("content", turn.parsed.needs)
    /\ last_incomplete_command["u1"].needs = <<"repo_name", "content">>
    /\ "u1" \notin DOMAIN long_term_memory

----------------------------------------------------------------------------
(* C24 *)

\* the Python strs, parameter names and need names of the adapter's answers
PyStrings == {"unknown", "git", "create_repo"}

\* an intent with a string agent, a string action, a mapping params and a
\* list needs
WellFormedIntent(intent) ==
    /\ intent.agent \in PyStrings
    /\ intent.action \in PyStrings
    /\ DOMAIN intent.needs = 1..Len(intent.needs)
    /\ DOMAIN intent.params \subseteq {"repo_name", "content"}

\* the field of the adapter's answer when it is there with the expected type
FieldOr(raw, key, type, default) ==
    IF raw.kind = "dict" /\ key \in DOMAIN raw.obj /\ raw.obj[key].t = type
    THEN raw.obj[key].v ELSE default

\* C24: whatever the intent adapter produces (fields missing or of the wrong
\* type, a non-mapping, unparseable text, an exception), the intent the router
\* works with has a string agent and a string action ("unknown" when missing
\* or of the wrong type), a mapping params ({} by default) and a list needs
\* ([] by default); the command stored as pending or dispatched in the turn is
\* of that shape too.
C24_IntentIsCoerced ==
    [][ Stepped =>
        /\ turn'.parsed.agent = FieldOr(turn'.raw, "agent", "str", "unknown")
        /\ turn'.parsed.action = FieldOr(turn'.raw, "action", "str", "unknown")
        /\ turn'.parsed.needs = FieldOr(turn'.raw, "needs", "list", <<>>)
        /\ turn'.parsed.params = FieldOr(turn'.raw, "params", "dict", EmptyDict)
        /\ turn'.parsed.raw_input = turn'.user_input
        /\ WellFormedIntent(turn'.parsed)
        /\ Dispatched(events') => WellFormedIntent(DispatchedCmd(events'))
        /\ Awaiting(last_incomplete_command', turn'.uid) =>
              WellFormedIntent(last_incomplete_command'[turn'.uid])
      ]_vars

\* C24 witness: the answer had a number as agent, null as action, a list as
\* params and a string as needs; the command dispatched was unknown.unknown with no params
C24_Witness ==
    /\ turn.raw.kind = "dict"
    /\ DOMAIN turn.raw.obj = IntentKeys
    /\ turn.raw.obj["agent"].t = "number"
    /\ turn.raw.obj["action"].t = "null"
    /\ turn.raw.obj["params"].t = "list"
    /\ turn.raw.obj["needs"].t = "str"
    /\ Dispatched(events)
    /\ DispatchedCmd(events).agent = "unknown"
    /\ DispatchedCmd(events).action = "unknown"
    /\ DispatchedCmd(events).params = EmptyDict
    /\ response = [kind |-> "unsupported_agent", agent |-> "unknown"]

----------------------------------------------------------------------------
(* C25 *)

\* the positions of the events of a kind in a turn
Positions(evs, kind) == { i \in 1..Len(evs) : evs[i].ev = kind }

\* C25: in every dispatch whose handler operation returns, the operation is
\* called first, the memory inference (with its long-term update, if any)
\* comes next and the transcript append last; no long-term update and no
\* transcript append of the turn comes before the call.
C25_SideEffectsAreOrdered ==
    [][ Stepped =>
        \A i \in Invocations(events') :
            Raised(events'[i]) = "" =>
                /\ Cardinality(Positions(events', "infer")) = 1
                /\ Cardinality(Positions(events', "stm_append")) = 1
                /\ Cardinality(Positions(events', "ltm_merge")) <= 1
                /\ \A j \in Positions(events', "infer") : j = i + 1
                /\ \A j \in Positions(events', "ltm_merge") : j = i + 2
                /\ \A j \in Positions(events', "stm_append") :
                      /\ j = Len(events')
                      /\ j > i + 1
                      /\ \A k \in Positions(events', "ltm_merge") : k < j
                /\ (long_term_memory' # long_term_memory) =>
                      Positions(events', "ltm_merge") # {}
      ]_vars

\* C25 witness: create_repo returned, the inference gave an object that was
\* merged into long-term memory, and the turn was appended to the transcript
C25_Witness ==
    /\ Len(events) = 5
    /\ events[2].ev = "invoke" /\ events[2].action = "create_repo"
    /\ events[3].ev = "infer" /\ events[3].outcome = "json"
    /\ events[4].ev = "ltm_merge"
    /\ events[5].ev = "stm_append"
    /\ "last_repo" \in DOMAIN long_term_memory[turn.uid]

----------------------------------------------------------------------------
(* C26 *)

\* C26: the fixed rule comes before any delegated inference.  After a
\* developer.generate_code call that returned (a result with a result field:
\* the appended result text) the long-term key code equals that result field
\* and the turn makes no delegated inference call; a delegated call is made
\* only in turns no fixed rule matches.
C26_FixedRuleComesFirst ==
    [][ Stepped =>
        \A i \in Invocations(events') :
            Raised(events'[i]) = "" =>
                LET isGen == events'[i].agent = "developer"
                               /\ events'[i].action = "generate_code"
                    last  == events'[Len(events')]
                IN  /\ isGen =>
                        /\ \A j \in Positions(events', "infer") : ~events'[j].llm
                        /\ turn'.uid \in DOMAIN long_term_memory'
                        /\ "code" \in DOMAIN long_term_memory'[turn'.uid]
                        /\ last.ev = "stm_append"
                        /\ long_term_memory'[turn'.uid]["code"] = last.assistant_response
                    /\ (\E j \in Positions(events', "infer") : events'[j].llm) => ~isGen
      ]_vars

\* C26 witness: generate_code failed inside and returned its error text as
\* result, without a code field: the text is stored under code and no
\* delegated inference was made
C26_Witness ==
    /\ Len(events) = 5
    /\ events[2].ev = "invoke" /\ events[2].action = "generate_code"
    /\ events[3].ev = "infer" /\ ~events[3].llm
    /\ events[4].ev = "ltm_merge"
    /\ long_term_memory[turn.uid]["code"] = "[DeveloperAgent Error] LLM failed"

----------------------------------------------------------------------------
(* C27 *)

\* C27: every stored pending command has a non-empty needs list without
\* duplicate names, and no name of needs is a key of the command's params.
C27_PendingIsWellFormed ==
    \A uid \in DOMAIN last_incomplete_command :
        LET C == last_incomplete_command[uid]
        IN  /\ C.needs # <<>>
            /\ \A i, j \in 1..Len(C.needs) : C.needs[i] = C.needs[j] => i = j
            /\ \A i \in 1..Len(C.needs) : C.needs[i] \notin DOMAIN C.params

----------------------------------------------------------------------------
(* C28 *)

\* the names the pending command of this step's user still needs that the
\* turn of this step does not supply (neither its intent nor the auto-fill)
Unsupplied ==
    { n \in { last_incomplete_command[turn'.uid].needs[i] :
                i \in 1..Len(last_incomplete_command[turn'.uid].needs) } :
        n \notin DOMAIN TurnParams }

\* C28: from AWAITING_PARAMS, a turn that supplies the last names of the
\* pending needs removes the pending entry and dispatches the command, once;
\* a turn that leaves a needed name unsupplied keeps the user in
\* AWAITING_PARAMS with the same agent and action and invokes no handler,
\* whatever new command it contains.  So the cycle ends, with one dispatch,
\* once every needed name has been supplied, and never before.
C28_PendingEndsOnlyWhenSupplied ==
    [][ (Stepped /\ Awaiting(last_incomplete_command, turn'.uid)) =>
        LET uid == turn'.uid
            C   == last_incomplete_command[uid]
        IN  /\ Unsupplied = {} =>
                  /\ ~Awaiting(last_incomplete_command', uid)
                  /\ events'[1].ev = "del_pending"
                  /\ Cardinality(Positions(events', "route")) = 1
                  /\ DispatchedCmd(events').agent = C.agent
                  /\ DispatchedCmd(events').action = C.action
            /\ Unsupplied # {} =>
                  /\ Awaiting(last_incomplete_command', uid)
                  /\ last_incomplete_command'[uid].agent = C.agent
                  /\ last_incomplete_command'[uid].action = C.action
                  /\ ~Invoked(events') /\ ~Dispatched(events')
      ]_vars

----------------------------------------------------------------------------
(* C29 *)

\* C29: a turn that ends with the reprompt (a new pending command was stored,
\* a merge left needs non-empty, or the adapter failed while a command was
\* pending) invokes no handler, dispatches nothing and leaves the user's
\* transcript and long-term memory unchanged; so a turn that finds and leaves
\* the user in AWAITING_PARAMS changes neither, and no entry is appended to
\* the transcript for a reprompt turn.
C29_RepromptTurnsTouchNoMemory ==
    [][ Stepped =>
        /\ response'.kind = "missing_params" =>
              /\ Awaiting(last_incomplete_command', turn'.uid)
              /\ ~Invoked(events') /\ ~Dispatched(events')
              /\ UNCHANGED <<short_term_memory, long_term_memory>>
              /\ Appends(events') = {}
              /\ stm_log' = stm_log
        /\ (/\ Awaiting(last_incomplete_command, turn'.uid)
            /\ Awaiting(last_incomplete_command', turn'.uid)) =>
              /\ response'.kind = "missing_params"
              /\ UNCHANGED <<short_term_memory, long_term_memory>>
      ]_vars

\* C29 witness: with a transcript and generated code in memory and a command
\* pending, the adapter failed and the turn ended with the reprompt
C29_Witness ==
    /\ response.kind = "missing_params"
    /\ turn.raw.kind = "raise"
    /\ events = <<>>
    /\ Awaiting(last_incomplete_command, turn.uid)
    /\ last_incomplete_command[turn.uid].raw_input # turn.user_input
    /\ turn.uid \in DOMAIN short_term_memory
    /\ Len(short_term_memory[turn.uid]) = 2
    /\ turn.uid \in DOMAIN long_term_memory
    /\ "code" \in DOMAIN long_term_memory[turn.uid]

----------------------------------------------------------------------------
(* C30 *)

\* the contents of the user entries of a transcript
UserTexts(t) == { t[i].content : i \in { j \in 1..Len(t) : t[j].role = "user" } }

\* C30: when a command assembled over several turns is dispatched, the user
\* entry appended to the transcript holds the raw input of the turn that
\* created the pending command; the text of a follow-up turn never appears in
\* the transcript.
C30_TranscriptHoldsCreatingText ==
    [][ (Stepped /\ Awaiting(last_incomplete_command, turn'.uid)) =>
        LET uid == turn'.uid
        IN  /\ \A i \in Appends(events') :
                  /\ events'[i].user_input = pending_origin[uid].raw_input
                  /\ events'[i].user_input # turn'.user_input
            /\ Appends(events') # {} =>
                  LET t == short_term_memory'[uid]
                  IN  t[Len(t) - 1] = Entry("user", pending_origin[uid].raw_input)
            /\ turn'.user_input \notin UserTexts(Get(short_term_memory', uid, <<>>))
            /\ turn'.user_input \notin UserTexts(Get(stm_log', uid, <<>>))
      ]_vars

\* C30 witness: a command created by the first call was completed by the third;
\* the transcript holds the text of the first call and neither follow-up text
C30_Witness ==
    /\ calls = 3
    /\ events # <<>> /\ events[1].ev = "del_pending"
    /\ Appends(events) # {}
    /\ turn.user_input = TextOf(3)
    /\ UserTexts(short_term_memory[turn.uid]) = {TextOf(1)}

====
